---- MODULE Spec2Model ----
(***************************************************************************)
(* Model of the sensehat-stick crate (src/src/lib.rs): the device locator  *)
(* JoyStick::open and the pollable event stream JoyStick::poll_next.       *)
(*                                                                         *)
(* The device is modelled by the sequence of outcomes its next             *)
(* poll_event calls will have (devq): a raw input record or an I/O error;  *)
(* an empty sequence means no record is available (poll_event is Pending). *)
(***************************************************************************)
EXTENDS Integers, Sequences, FiniteSets

VARIABLES
    devq,        \* outcomes the device has ready for poll_event, oldest first
    fetched,     \* every outcome poll_event has handed to poll_next so far
    lastFetched, \* the outcomes the most recent poll_next call fetched
    out,         \* the items the consumer received (Ready(Some(item))), in order
    ret,         \* what the most recent poll_next call returned
    panicked,    \* an unwrap() in poll_next panicked: the consumer is gone
    runnable,    \* the consumer's task is scheduled: it will call poll_next
    entries,     \* what the glob enumeration yields, in its order
    idx,         \* number of enumeration entries open() has taken so far
    handles,     \* indices of the entries whose device handle is open now
    attempted,   \* indices of the entries Device::open was called on, in order
    openPc,      \* where open() is: "next", "opened" or "returned"
    openRet      \* what open() returned

vars == <<devq, fetched, lastFetched, out, ret, panicked, runnable,
          entries, idx, handles, attempted, openPc, openRet>>

streamVars == <<devq, fetched, lastFetched, out, ret, panicked, runnable>>
openVars == <<entries, idx, handles, attempted, openPc, openRet>>

----------------------------------------------------------------------------
(* Bounds of the model *)

\* Number of outcomes (records and errors) the device produces in one run.
MaxRecords == 3

\* Number of entries the enumeration of /dev/input/event* yields.
MaxEntries == 3

----------------------------------------------------------------------------
(* Machine integers *)

\* A usize is kept as its 16-bit limbs, most significant first, so that the
\* casts `as usize` keep their meaning (zero extension of a u16, sign
\* extension of an i32) without leaving TLC's integer range.
UsizeLimbs == 4

LimbBase == 65536

\* `x as usize` for x: u16 (key.code()): zero extension.
U16AsUsize(x) ==
    [i \in 1..UsizeLimbs |-> IF i = UsizeLimbs THEN x % LimbBase ELSE 0]

\* `x as usize` for x: i32 (key.value()): sign extension.
I32AsUsize(x) ==
    [i \in 1..UsizeLimbs |->
        IF i = UsizeLimbs THEN x % LimbBase
        ELSE IF i = UsizeLimbs - 1 THEN (x \div LimbBase) % LimbBase
        ELSE IF x < 0 THEN LimbBase - 1 ELSE 0]

\* The usize value of an enum discriminant written in the source.
Discriminant(n) == [i \in 1..UsizeLimbs |-> IF i = UsizeLimbs THEN n ELSE 0]

----------------------------------------------------------------------------
(* The enums and their derived TryFromPrimitive conversions *)

\* Direction with the discriminants of Left and Right exchanged.
DirectionSwapped ==
    [Enter |-> 28, Up |-> 103, Down |-> 108, Left |-> 106, Right |-> 105]

\* enum Direction, #[repr(usize)]
Direction ==
    [Enter |-> 28, Up |-> 103, Down |-> 108, Left |-> 105, Right |-> 106]

\* Action with every discriminant one too high.
ActionShifted == [Release |-> 1, Press |-> 2, Hold |-> 3]

\* enum Action, #[repr(usize)]
Action == [Release |-> 0, Press |-> 1, Hold |-> 2]

RustOk(v) == [ok |-> TRUE, val |-> v]
RustErr(e) == [ok |-> FALSE, val |-> e]

\* A derived try_from: the variant whose discriminant equals u, else an error.
TryFromPrimitive(enum, u) ==
    IF \E n \in DOMAIN enum : Discriminant(enum[n]) = u
    THEN RustOk(CHOOSE n \in DOMAIN enum : Discriminant(enum[n]) = u)
    ELSE RustErr("TryFromPrimitiveError")

\* A conversion that falls back to a default variant instead of failing.
DirectionTryFromDefault(u) ==
    IF TryFromPrimitive(Direction, u).ok
    THEN TryFromPrimitive(Direction, u) ELSE RustOk("Enter")

\* Direction::try_from(usize)
DirectionTryFrom(u) == TryFromPrimitive(Direction, u)

\* Action::try_from(usize)
ActionTryFrom(u) == TryFromPrimitive(Action, u)

----------------------------------------------------------------------------
(* Time *)

\* std::time::UNIX_EPOCH, on the clock the record timestamps are read on.
UNIX_EPOCH == 0

\* A conversion that takes the distance between the two times.
DurationSinceAbs(t, earlier) ==
    IF t >= earlier THEN RustOk(t - earlier) ELSE RustOk(earlier - t)

\* SystemTime::duration_since(earlier): the elapsed time, or an error when
\* the time lies before `earlier`.
DurationSince(t, earlier) ==
    IF t >= earlier THEN RustOk(t - earlier) ELSE RustErr("SystemTimeError")

----------------------------------------------------------------------------
(* Raw records and device outcomes *)

EventTypes == {0, 1, 3}
Codes == {28, 103, 105, 106, 108, 0, 107}
Values == {-1, 0, 1, 2, 3}
Timestamps == {-1, 0, 2}
IoErrors == {"EIO", "ENODEV"}

\* evdev::InputEvent as poll_next reads it.
Records ==
    [kind : {"Rec"}, event_type : EventTypes, code : Codes,
     value : Values, timestamp : Timestamps]

\* The records the streaming specification lets the device produce.
StreamRecords ==
    {r \in Records :
        \/ /\ r.event_type \in {0, 1}
           /\ r.code \in {28, 106, 107}
           /\ r.value \in {1, 3}
           /\ r.timestamp = 2
        \/ /\ r.event_type = 1 /\ r.code = 28 /\ r.value = 1
           /\ r.timestamp = -1}

\* The well-formed records among them: key and non-key records whose
\* code, value and timestamp are all in their domains.
LiveRecords ==
    {r \in StreamRecords :
        r.code \in {28, 106} /\ r.value = 1 /\ r.timestamp = 2}

IoErr(e) == [kind |-> "IoErr", err |-> e]

IsRec(x) == x.kind = "Rec"
IsKey(x) == IsRec(x) /\ x.event_type = 1

----------------------------------------------------------------------------
(* poll_next *)

JoyStickEvent(timestamp, direction, action) ==
    [timestamp |-> timestamp, direction |-> direction, action |-> action]

Pending == [tag |-> "Pending"]
ReadyNone == [tag |-> "Ready", opt |-> "None"]
ReadySome(item) == [tag |-> "Ready", opt |-> "Some", item |-> item]
Panic(msg) == [tag |-> "Panic", msg |-> msg]
NotPolled == [tag |-> "NotPolled"]

ItemOk(ev) == [res |-> "Ok", val |-> ev]
ItemErr(e) == [res |-> "Err", val |-> e]

\* Lines 91-95: what poll_next does with a key record.
DecodeKey(key) ==
    LET time == DurationSince(key.timestamp, UNIX_EPOCH)
        direction == DirectionTryFrom(U16AsUsize(key.code))
        action == ActionTryFrom(I32AsUsize(key.value))
    IN  IF ~time.ok THEN Panic("unwrap: SystemTimeError")
        ELSE IF ~direction.ok THEN Panic("unwrap: TryFromPrimitiveError<Direction>")
        ELSE IF ~action.ok THEN Panic("unwrap: TryFromPrimitiveError<Action>")
        ELSE ReadySome(ItemOk(JoyStickEvent(time.val, direction.val, action.val)))

\* A filter that lets records of type 0 through to the decoder.
SkipRecordAboveKey(key) == key.event_type > 1

\* A filter that also passes over the key records.
SkipRecordFromKey(key) == key.event_type >= 1

\* Line 87: a record that is not a key event (type 1) is passed over.
SkipRecord(key) == key.event_type # 1

RECURSIVE PollLoopNone(_, _)
\* poll_next returning Ready(None) for a record it passes over.
PollLoopNone(q, n) ==
    IF n = Len(q) THEN [ret |-> Pending, taken |-> n]
    ELSE LET key == q[n + 1] IN
        IF ~IsRec(key) THEN [ret |-> ReadySome(ItemErr(key.err)), taken |-> n + 1]
        ELSE IF SkipRecord(key) THEN [ret |-> ReadyNone, taken |-> n + 1]
        ELSE [ret |-> DecodeKey(key), taken |-> n + 1]

RECURSIVE PollLoopRetry(_, _)
\* poll_next fetching again after a device error instead of returning it.
PollLoopRetry(q, n) ==
    IF n = Len(q) THEN [ret |-> Pending, taken |-> n]
    ELSE LET key == q[n + 1] IN
        IF ~IsRec(key) THEN PollLoopRetry(q, n + 1)
        ELSE IF SkipRecord(key) THEN PollLoopRetry(q, n + 1)
        ELSE [ret |-> DecodeKey(key), taken |-> n + 1]

RECURSIVE PollLoopPendingOnSkip(_, _)
\* poll_next returning Pending after a record it passes over.
PollLoopPendingOnSkip(q, n) ==
    IF n = Len(q) THEN [ret |-> Pending, taken |-> n]
    ELSE LET key == q[n + 1] IN
        IF ~IsRec(key) THEN [ret |-> ReadySome(ItemErr(key.err)), taken |-> n + 1]
        ELSE IF SkipRecord(key) THEN [ret |-> Pending, taken |-> n + 1]
        ELSE [ret |-> DecodeKey(key), taken |-> n + 1]

RECURSIVE PollLoopPendingOnError(_, _)
\* poll_next swallowing a device error and returning Pending.
PollLoopPendingOnError(q, n) ==
    IF n = Len(q) THEN [ret |-> Pending, taken |-> n]
    ELSE LET key == q[n + 1] IN
        IF ~IsRec(key) THEN [ret |-> Pending, taken |-> n + 1]
        ELSE IF SkipRecord(key) THEN PollLoopPendingOnError(q, n + 1)
        ELSE [ret |-> DecodeKey(key), taken |-> n + 1]

RECURSIVE PollLoopDecodeFirst(_, _)
\* poll_next converting the fields of a record before it looks at its type.
PollLoopDecodeFirst(q, n) ==
    IF n = Len(q) THEN [ret |-> Pending, taken |-> n]
    ELSE LET key == q[n + 1] IN
        IF ~IsRec(key) THEN [ret |-> ReadySome(ItemErr(key.err)), taken |-> n + 1]
        ELSE IF DecodeKey(key).tag = "Panic"
             THEN [ret |-> DecodeKey(key), taken |-> n + 1]
        ELSE IF SkipRecord(key) THEN PollLoopDecodeFirst(q, n + 1)
        ELSE [ret |-> DecodeKey(key), taken |-> n + 1]

RECURSIVE PollLoop(_, _)
\* The loop of poll_next over the device outcomes q, having fetched n of
\* them already: the value returned and the number of outcomes fetched.
PollLoop(q, n) ==
    IF n = Len(q) THEN [ret |-> Pending, taken |-> n]
    ELSE LET key == q[n + 1] IN
        IF ~IsRec(key) THEN [ret |-> ReadySome(ItemErr(key.err)), taken |-> n + 1]
        ELSE IF SkipRecord(key) THEN PollLoop(q, n + 1)
        ELSE [ret |-> DecodeKey(key), taken |-> n + 1]

\* What a call of poll_next leaves behind, r being the outcome of its loop.
\* On Pending the task waits for the waker that poll_event registered; on a
\* Ready item the consumer's `while let` loop asks for the next item.
Returned(r) ==
    /\ ret' = r.ret
    /\ devq' = SubSeq(devq, r.taken + 1, Len(devq))
    /\ lastFetched' = SubSeq(devq, 1, r.taken)
    /\ fetched' = fetched \o SubSeq(devq, 1, r.taken)
    /\ out' = IF r.ret.tag = "Ready" /\ r.ret.opt = "Some"
              THEN Append(out, r.ret.item) ELSE out
    /\ panicked' = (r.ret.tag = "Panic")

\* A stream that, once it has yielded an error, ends without fetching.
PollFused ==
    /\ openRet.kind = "Ok"
    /\ ~panicked
    /\ runnable
    /\ IF ret.tag = "Ready" /\ (ret.opt = "None" \/ ret.item.res = "Err")
       THEN Returned([ret |-> ReadyNone, taken |-> 0])
       ELSE Returned(PollLoop(devq, 0))
    /\ runnable' = (ret'.tag = "Ready")
    /\ UNCHANGED openVars

\* A call that wakes its own task when it returns Pending (a busy poll).
PollBusy ==
    /\ openRet.kind = "Ok"
    /\ ~panicked
    /\ runnable
    /\ Returned(PollLoop(devq, 0))
    /\ runnable' = (ret'.tag \in {"Ready", "Pending"})
    /\ UNCHANGED openVars

\* One call of JoyStick::poll_next by the consumer's task.
Poll ==
    /\ openRet.kind = "Ok"
    /\ ~panicked
    /\ runnable
    /\ Returned(PollLoop(devq, 0))
    /\ runnable' = (ret'.tag = "Ready")
    /\ UNCHANGED openVars

\* The device makes one more raw record available; the readiness of its
\* file descriptor wakes the task if it is waiting.
DeviceEmit ==
    /\ openRet.kind = "Ok"
    /\ ~panicked
    /\ Len(fetched) + Len(devq) < MaxRecords
    /\ \E r \in StreamRecords : devq' = Append(devq, r)
    /\ runnable' = TRUE
    /\ UNCHANGED <<fetched, lastFetched, out, ret, panicked>>
    /\ UNCHANGED openVars

\* The device makes one more well-formed record available.
DeviceEmitLive ==
    /\ openRet.kind = "Ok"
    /\ ~panicked
    /\ Len(fetched) + Len(devq) < MaxRecords
    /\ \E r \in LiveRecords : devq' = Append(devq, r)
    /\ runnable' = TRUE
    /\ UNCHANGED <<fetched, lastFetched, out, ret, panicked>>
    /\ UNCHANGED openVars

\* The next read of the device will fail with an I/O error.
DeviceFail ==
    /\ openRet.kind = "Ok"
    /\ ~panicked
    /\ Len(fetched) + Len(devq) < MaxRecords
    /\ \E e \in IoErrors : devq' = Append(devq, IoErr(e))
    /\ runnable' = TRUE
    /\ UNCHANGED <<fetched, lastFetched, out, ret, panicked>>
    /\ UNCHANGED openVars

----------------------------------------------------------------------------
(* JoyStick::open *)

\* Device name provided by the hardware (31 bytes).
SENSE_HAT_EVDEV_NAME == "Raspberry Pi Sense HAT Joystick"

Some(s) == [some |-> TRUE, str |-> s]
None == [some |-> FALSE, str |-> ""]

\* Option<&str>::unwrap_or_default
UnwrapOrDefault(o) == IF o.some THEN o.str ELSE ""

DeviceNames ==
    {None,
     Some(SENSE_HAT_EVDEV_NAME),
     Some("Raspberry Pi Sense HAT Joystic"),
     Some("Raspberry Pi Sense HAT Joystick "),
     Some("raspberry pi sense hat joystick"),
     Some("Mouse"),
     Some("Keyboard")}

\* An enumeration entry: a glob error, or a path whose Device::open fails
\* with an I/O error or succeeds with a device reporting `name`;
\* `stream` tells whether into_event_stream succeeds on that device.
GlobErrEntry(e) == [kind |-> "GlobErr", err |-> e, name |-> None, stream |-> FALSE]
OpenFailEntry(e) == [kind |-> "OpenFail", err |-> e, name |-> None, stream |-> FALSE]
DevEntry(n, s) == [kind |-> "Dev", err |-> "", name |-> n, stream |-> s]

\* into_event_stream is called on a matching device only, so its failure is
\* enumerated for that name alone.
Entries ==
    {GlobErrEntry("PermissionDenied")}
    \cup {OpenFailEntry(e) : e \in {"PermissionDenied", "NotFound"}}
    \cup {DevEntry(n, TRUE) : n \in DeviceNames}
    \cup {DevEntry(Some(SENSE_HAT_EVDEV_NAME), FALSE)}

OpenRunning == [kind |-> "Running", device |-> 0, err |-> "", msg |-> ""]
OpenOk(i) == [kind |-> "Ok", device |-> i, err |-> "", msg |-> ""]
OpenErr(k, m) == [kind |-> "Err", device |-> 0, err |-> k, msg |-> m]

\* A comparison of the name that ignores ASCII case.
NameMatchesIgnoreCase(name) ==
    UnwrapOrDefault(name) \in
        {SENSE_HAT_EVDEV_NAME, "raspberry pi sense hat joystick"}

\* Line 109: the comparison of the reported name with the expected one.
NameMatches(name) == UnwrapOrDefault(name) = SENSE_HAT_EVDEV_NAME

\* A search that passes over an entry it cannot enumerate or open.
OpenEntrySkipUnreadable ==
    /\ openPc = "next"
    /\ idx < Len(entries)
    /\ idx' = idx + 1
    /\ LET entry == entries[idx + 1] IN
        CASE entry.kind = "GlobErr" ->
                UNCHANGED <<handles, attempted, openPc, openRet>>
          [] entry.kind = "OpenFail" ->
                /\ attempted' = Append(attempted, idx + 1)
                /\ UNCHANGED <<handles, openPc, openRet>>
          [] entry.kind = "Dev" ->
                /\ attempted' = Append(attempted, idx + 1)
                /\ handles' = handles \cup {idx + 1}
                /\ openPc' = "opened"
                /\ UNCHANGED openRet
    /\ UNCHANGED entries
    /\ UNCHANGED streamVars

\* Lines 103-108, 115: take the next enumeration entry and open its device.
OpenEntry ==
    /\ openPc = "next"
    /\ idx < Len(entries)
    /\ idx' = idx + 1
    /\ LET entry == entries[idx + 1] IN
        CASE entry.kind = "GlobErr" ->
                /\ openRet' = OpenErr(entry.err, "glob")
                /\ openPc' = "returned"
                /\ UNCHANGED <<handles, attempted>>
          [] entry.kind = "OpenFail" ->
                /\ attempted' = Append(attempted, idx + 1)
                /\ openRet' = OpenErr(entry.err, "os")
                /\ openPc' = "returned"
                /\ UNCHANGED handles
          [] entry.kind = "Dev" ->
                /\ attempted' = Append(attempted, idx + 1)
                /\ handles' = handles \cup {idx + 1}
                /\ openPc' = "opened"
                /\ UNCHANGED openRet
    /\ UNCHANGED entries
    /\ UNCHANGED streamVars

\* A search that keeps the handle of a device it passes over.
ExamineDeviceLeak ==
    /\ openPc = "opened"
    /\ LET entry == entries[idx] IN
        IF NameMatches(entry.name)
        THEN /\ openPc' = "returned"
             /\ IF entry.stream
                THEN /\ openRet' = OpenOk(idx)
                     /\ UNCHANGED handles
                ELSE /\ openRet' = OpenErr("Other", "os")
                     /\ handles' = handles \ {idx}
        ELSE /\ openPc' = "next"
             /\ UNCHANGED <<handles, openRet>>
    /\ UNCHANGED <<entries, idx, attempted>>
    /\ UNCHANGED streamVars

\* A search that fails on a device reporting no name.
ExamineDeviceNameRequired ==
    /\ openPc = "opened"
    /\ LET entry == entries[idx] IN
        IF ~entry.name.some
        THEN /\ openPc' = "returned"
             /\ openRet' = OpenErr("InvalidData", "no name")
             /\ handles' = handles \ {idx}
        ELSE IF NameMatches(entry.name)
        THEN /\ openPc' = "returned"
             /\ IF entry.stream
                THEN /\ openRet' = OpenOk(idx)
                     /\ UNCHANGED handles
                ELSE /\ openRet' = OpenErr("Other", "os")
                     /\ handles' = handles \ {idx}
        ELSE /\ handles' = handles \ {idx}
             /\ openPc' = "next"
             /\ UNCHANGED openRet
    /\ UNCHANGED <<entries, idx, attempted>>
    /\ UNCHANGED streamVars

\* Lines 109-114: compare the opened device's name; return it as a stream
\* on a match, else drop it and go on.
ExamineDevice ==
    /\ openPc = "opened"
    /\ LET entry == entries[idx] IN
        IF NameMatches(entry.name)
        THEN /\ openPc' = "returned"
             /\ IF entry.stream
                THEN /\ openRet' = OpenOk(idx)
                     /\ UNCHANGED handles
                ELSE /\ openRet' = OpenErr("Other", "os")
                     /\ handles' = handles \ {idx}
        ELSE /\ handles' = handles \ {idx}
             /\ openPc' = "next"
             /\ UNCHANGED openRet
    /\ UNCHANGED <<entries, idx, attempted>>
    /\ UNCHANGED streamVars

\* Exhaustion reported with another error kind.
OpenExhaustedOther ==
    /\ openPc = "next"
    /\ idx = Len(entries)
    /\ openRet' = OpenErr("Other", "No Joystick found")
    /\ openPc' = "returned"
    /\ UNCHANGED <<entries, idx, handles, attempted>>
    /\ UNCHANGED streamVars

\* Lines 118-121: the enumeration is exhausted.
OpenExhausted ==
    /\ openPc = "next"
    /\ idx = Len(entries)
    /\ openRet' = OpenErr("NotFound", "No Joystick found")
    /\ openPc' = "returned"
    /\ UNCHANGED <<entries, idx, handles, attempted>>
    /\ UNCHANGED streamVars

----------------------------------------------------------------------------
(* Specifications *)

RECURSIVE SeqsUpTo(_, _)
\* The sequences over S of length at most n.
SeqsUpTo(S, n) ==
    IF n = 0 THEN {<<>>}
    ELSE LET shorter == SeqsUpTo(S, n - 1) IN
        shorter \cup {Append(s, x) : s \in shorter, x \in S}

StreamInit ==
    /\ fetched = <<>>
    /\ lastFetched = <<>>
    /\ out = <<>>
    /\ ret = NotPolled
    /\ panicked = FALSE
    /\ runnable = TRUE

\* A JoyStick that open() has just returned.
OpenedInit ==
    /\ entries = <<DevEntry(Some(SENSE_HAT_EVDEV_NAME), TRUE)>>
    /\ idx = 1
    /\ handles = {1}
    /\ attempted = <<1>>
    /\ openPc = "returned"
    /\ openRet = OpenOk(1)

\* The stream of an opened joystick, the device producing records and
\* errors while the consumer polls.
Init ==
    /\ OpenedInit
    /\ StreamInit
    /\ devq = <<>>

Next == DeviceEmit \/ DeviceFail \/ Poll

Spec == Init /\ [][Next]_vars

\* Every call of poll_next fetches an outcome or suspends the task.
pollVars == <<fetched, runnable>>

NextLive == DeviceEmitLive \/ DeviceFail \/ Poll

\* The stream of a device whose records are all well-formed, under an
\* executor that polls the task whenever it is scheduled (the `while let`
\* loop of the examples under block_on).
SpecLive == Init /\ [][NextLive]_vars /\ WF_pollVars(Poll)

\* Decoding of a single raw record, over every record of the raw layout.
InitDecode ==
    /\ OpenedInit
    /\ StreamInit
    /\ devq \in {<<r>> : r \in Records}

NextDecode == Poll

SpecDecode == InitDecode /\ [][NextDecode]_vars

\* open() over every enumeration of at most MaxEntries entries.
InitOpen ==
    /\ entries \in SeqsUpTo(Entries, MaxEntries)
    /\ idx = 0
    /\ handles = {}
    /\ attempted = <<>>
    /\ openPc = "next"
    /\ openRet = OpenRunning
    /\ StreamInit
    /\ devq = <<>>

NextOpen == OpenEntry \/ ExamineDevice \/ OpenExhausted

SpecOpen == InitOpen /\ [][NextOpen]_vars

----------------------------------------------------------------------------
(* Vocabulary of the properties *)

Last(s) == s[Len(s)]

\* The most recent poll_next call ended on a key record / on a valid one.
EndedOnKey == lastFetched # <<>> /\ IsKey(Last(lastFetched))

ValidCode(r) == r.code \in {28, 103, 108, 105, 106}
ValidValue(r) == r.value \in {0, 1, 2}
ValidTime(r) == r.timestamp >= 0
ValidKey(r) == IsKey(r) /\ ValidCode(r) /\ ValidValue(r) /\ ValidTime(r)

NonKey(x) == IsRec(x) /\ x.event_type # 1

DirectionOfCode(c) ==
    CASE c = 28 -> "Enter" [] c = 103 -> "Up" [] c = 108 -> "Down"
      [] c = 105 -> "Left" [] c = 106 -> "Right"

ActionOfValue(v) ==
    CASE v = 0 -> "Release" [] v = 1 -> "Press" [] v = 2 -> "Hold"

EventOf(r) ==
    [timestamp |-> r.timestamp, direction |-> DirectionOfCode(r.code),
     action |-> ActionOfValue(r.value)]

YieldedOk == ret.tag = "Ready" /\ ret.opt = "Some" /\ ret.item.res = "Ok"
YieldedErr == ret.tag = "Ready" /\ ret.opt = "Some" /\ ret.item.res = "Err"

\* The outcomes that poll_next answers with an item or a fault.
Answered(s) == SelectSeq(s, LAMBDA x : ~NonKey(x))
KeysOf(s) == SelectSeq(s, IsKey)
OkEvents(s) == SelectSeq(s, LAMBDA it : it.res = "Ok")

----------------------------------------------------------------------------
(* Properties of the decoder *)

C2_ActionDecoded ==
    (EndedOnKey /\ ValidKey(Last(lastFetched))) =>
        /\ YieldedOk
        /\ ~panicked
        /\ ret.item.val.action = ActionOfValue(Last(lastFetched).value)
        /\ Last(out) = ret.item

C2_Witness ==
    /\ EndedOnKey /\ ValidKey(Last(lastFetched))
    /\ Last(lastFetched).value = 2
    /\ YieldedOk /\ ret.item.val.action = "Hold"

\* C3: a record whose event_type is not 1 produces no output: a call that
\* fetched such records only returns no item, and the consumer never holds
\* more items than there were key records and device errors, whatever the
\* code and value of the other records.
C3_NonKeyFiltered ==
    /\ (\A i \in 1..Len(lastFetched) : NonKey(lastFetched[i])) =>
          ret.tag \in {"Pending", "NotPolled"}
    /\ Len(out) <= Len(Answered(fetched))
    /\ (ret.tag = "Ready" /\ ret.opt = "Some") =>
          lastFetched # <<>> /\ ~NonKey(Last(lastFetched))

C3_Witness ==
    /\ Len(fetched) = 2
    /\ NonKey(fetched[1]) /\ fetched[1].code = 28 /\ fetched[1].value = 1
    /\ NonKey(fetched[2]) /\ fetched[2].code = 107 /\ fetched[2].value = 3
    /\ lastFetched = fetched
    /\ ret = Pending
    /\ out = <<>>

\* C4: a key record whose code is outside {28, 103, 108, 105, 106} or whose
\* value is outside {0, 1, 2} makes decoding fail with a fault: no event is
\* emitted for it and no direction or action is substituted.
C4_InvalidKeyFaults ==
    (EndedOnKey /\ (~ValidCode(Last(lastFetched)) \/ ~ValidValue(Last(lastFetched)))) =>
        /\ ret.tag = "Panic"
        /\ panicked
        /\ Len(out) = Len(Answered(fetched)) - 1
        /\ Len(OkEvents(out)) = Len(KeysOf(fetched)) - 1

C4_Witness ==
    /\ EndedOnKey
    /\ Last(lastFetched).code = 107
    /\ ValidValue(Last(lastFetched)) /\ ValidTime(Last(lastFetched))
    /\ ret.tag = "Panic"
    /\ out = <<>>

\* C5: a malformed key record (code or value out of its domain, or a
\* timestamp before the UNIX epoch) reaches the consumer as an error item
\* of the stream, and the consumer is still running afterwards.
C5_MalformedIsErrorItem ==
    (EndedOnKey /\ ~ValidKey(Last(lastFetched))) =>
        /\ YieldedErr
        /\ ~panicked

\* C6: poll_next never returns Ready(None): a Ready result is Some(Ok(event))
\* decoded from the key record the call ended on, or Some(Err(e)) with the
\* error the device reported.
C6_NeverReadyNone ==
    ret.tag = "Ready" =>
        /\ ret.opt = "Some"
        /\ lastFetched # <<>>
        /\ \/ /\ ret.item.res = "Ok"
              /\ ValidKey(Last(lastFetched))
              /\ ret.item.val = EventOf(Last(lastFetched))
           \/ /\ ret.item.res = "Err"
              /\ ~IsRec(Last(lastFetched))
              /\ ret.item.val = Last(lastFetched).err

C6_Witness ==
    /\ YieldedOk
    /\ Len(lastFetched) = 2
    /\ NonKey(lastFetched[1])

\* C7: when the key records fetched are all valid, the Ok items delivered
\* are exactly their events, one per key record, in the order of the
\* records, whatever non-key records lie between them.
C7_KeyEventsInOrder ==
    (\A i \in 1..Len(fetched) : IsKey(fetched[i]) => ValidKey(fetched[i])) =>
        /\ Len(OkEvents(out)) = Len(KeysOf(fetched))
        /\ \A i \in 1..Len(KeysOf(fetched)) :
              OkEvents(out)[i].val = EventOf(KeysOf(fetched)[i])

C7_Witness ==
    /\ Len(fetched) = 3
    /\ ValidKey(fetched[1]) /\ fetched[1].code = 106
    /\ NonKey(fetched[2])
    /\ ValidKey(fetched[3]) /\ fetched[3].code = 28
    /\ Len(out) = 2
    /\ out[1].val.direction = "Right" /\ out[2].val.direction = "Enter"

\* C8: when the device poll reports an error, the same poll_next call
\* returns that error unchanged as its item, fetching nothing after it.
C8_DeviceErrorReturned ==
    /\ \A i \in 1..Len(lastFetched) :
          ~IsRec(lastFetched[i]) =>
              /\ i = Len(lastFetched)
              /\ YieldedErr
              /\ ret.item.val = lastFetched[i].err
              /\ Last(out) = ret.item
    /\ Len(SelectSeq(out, LAMBDA it : it.res = "Err"))
          = Len(SelectSeq(fetched, LAMBDA x : ~IsRec(x)))

C8_Witness ==
    /\ YieldedErr
    /\ ret.item.val = "ENODEV"
    /\ Len(lastFetched) = 2
    /\ NonKey(lastFetched[1])
    /\ devq # <<>>

----------------------------------------------------------------------------
(* Properties of the locator *)

ExactName(e) ==
    e.kind = "Dev" /\ e.name = Some("Raspberry Pi Sense HAT Joystick")

\* Every entry before position i opened and had another name.
NoneBefore(i) ==
    \A j \in 1..(i - 1) : entries[j].kind = "Dev" /\ ~ExactName(entries[j])

\* C9: open returns the first device, in enumeration order, whose name is
\* exactly "Raspberry Pi Sense HAT Joystick"; a device with any other name
\* is never returned.
C9_FirstExactMatch ==
    openPc = "returned" =>
        /\ openRet.kind = "Ok" =>
              /\ openRet.device \in 1..Len(entries)
              /\ ExactName(entries[openRet.device])
              /\ NoneBefore(openRet.device)
        /\ \A i \in 1..Len(entries) :
              (ExactName(entries[i]) /\ entries[i].stream /\ NoneBefore(i)) =>
                  openRet = OpenOk(i)

C9_Witness ==
    /\ openPc = "returned"
    /\ Len(entries) = 3
    /\ entries[1].name = Some("raspberry pi sense hat joystick")
    /\ ExactName(entries[2])
    /\ ExactName(entries[3])
    /\ openRet = OpenOk(2)

\* Every entry opened and none has the matching name.
AllOpenedNoneMatches ==
    \A i \in 1..Len(entries) : entries[i].kind = "Dev" /\ ~ExactName(entries[i])

\* C10 as stated: open fails with a NotFound error exactly when the
\* enumeration is exhausted with every entry opened and none matching.
C10_NotFoundIffExhausted ==
    openPc = "returned" =>
        ((openRet.kind = "Err" /\ openRet.err = "NotFound") <=> AllOpenedNoneMatches)

\* C10, amended: open fails with the NotFound error whose message is
\* "No Joystick found" exactly when the enumeration is exhausted with every
\* entry opened and none matching (the empty enumeration included), and it
\* returns no NotFound error at all while a matching device is among the
\* entries and no earlier entry failed.
C10_NoJoystickFoundIffExhausted ==
    openPc = "returned" =>
        /\ (openRet = OpenErr("NotFound", "No Joystick found")) <=> AllOpenedNoneMatches
        /\ (\E i \in 1..Len(entries) : ExactName(entries[i]) /\ NoneBefore(i)) =>
              ~(openRet.kind = "Err" /\ openRet.err = "NotFound")

C10_Witness ==
    /\ openPc = "returned"
    /\ Len(entries) = 2
    /\ entries[1].name = Some("Mouse")
    /\ entries[2].name = Some("Raspberry Pi Sense HAT Joystic")
    /\ openRet = OpenErr("NotFound", "No Joystick found")
    /\ handles = {}

Failed(e) == e.kind \in {"GlobErr", "OpenFail"}

\* C11: when yielding or opening an entry fails before a match was found,
\* open returns that entry's error at once and takes no further entry, even
\* with a matching device later in the enumeration; the entries it passes
\* over are exactly devices that opened and whose name did not match.
C11_FirstFailurePropagated ==
    /\ \A j \in 1..(idx - 1) : entries[j].kind = "Dev" /\ ~ExactName(entries[j])
    /\ openPc = "returned" =>
          \A i \in 1..Len(entries) :
              (Failed(entries[i]) /\ NoneBefore(i)) =>
                  /\ openRet.kind = "Err"
                  /\ openRet.err = entries[i].err
                  /\ openRet.msg # "No Joystick found"
                  /\ idx = i
                  /\ \A k \in 1..Len(attempted) : attempted[k] <= i
                  /\ handles = {}

C11_Witness ==
    /\ openPc = "returned"
    /\ Len(entries) = 3
    /\ entries[1].name = Some("Mouse")
    /\ entries[2] = OpenFailEntry("PermissionDenied")
    /\ ExactName(entries[3]) /\ entries[3].stream
    /\ openRet = OpenErr("PermissionDenied", "os")
    /\ attempted = <<1, 2>>

\* C12: during open at most one device handle is open at any step; the
\* handle of a device that did not match is closed before the next
\* candidate is opened; no entry after the first match is opened; on
\* success exactly the matched device's handle is held, and after an error
\* return no handle is open.
C12_HandleAccounting ==
    /\ Cardinality(handles) <= 1
    /\ openPc = "next" => handles = {}
    /\ openPc = "opened" => handles = {idx}
    /\ \A k \in 1..Len(attempted) :
          /\ attempted[k] <= idx
          /\ \A j \in 1..(attempted[k] - 1) : ~ExactName(entries[j])
    /\ openPc = "returned" =>
          /\ openRet.kind = "Ok" => handles = {openRet.device}
          /\ openRet.kind = "Err" => handles = {}

C12_Witness ==
    /\ openPc = "returned"
    /\ Len(entries) = 3
    /\ entries[1].name = Some("Mouse")
    /\ ExactName(entries[2])
    /\ entries[3].name = Some("Keyboard")
    /\ openRet = OpenOk(2)
    /\ attempted = <<1, 2>>
    /\ handles = {2}

Unnamed(e) == e.kind = "Dev" /\ ~e.name.some

\* C19: a candidate that opens but reports no name is passed over like any
\* device with another name: its handle is closed, it is never returned,
\* the search goes on with the next entry, and open does not fail on its
\* account (after it, only exhaustion or a later entry ends the search).
C19_UnnamedSkipped ==
    \A i \in 1..idx :
        Unnamed(entries[i]) =>
            /\ (i \in handles) => (i = idx /\ openPc = "opened")
            /\ openRet.kind = "Ok" => openRet.device # i
            /\ (openPc = "returned" /\ idx = i) =>
                  /\ i = Len(entries)
                  /\ openRet = OpenErr("NotFound", "No Joystick found")

C19_Witness ==
    /\ openPc = "returned"
    /\ Len(entries) = 2
    /\ Unnamed(entries[1])
    /\ ExactName(entries[2])
    /\ openRet = OpenOk(2)
    /\ attempted = <<1, 2>>

----------------------------------------------------------------------------
(* Properties of the stream over time *)

\* A step that is a call of poll_next.
PollStep ==
    fetched' # fetched \/ lastFetched' # lastFetched \/ ret'.tag # ret.tag

\* The step returns Ready(Some(item)), item being res(v), to the consumer.
StepYields(res, v) ==
    /\ ret'.tag = "Ready" /\ ret'.opt = "Some"
    /\ ret'.item.res = res /\ ret'.item.val = v
    /\ Len(out') = Len(out) + 1
    /\ SubSeq(out', 1, Len(out)) = out
    /\ Last(out') = ret'.item

AllNonKey(s) == \A i \in 1..Len(s) : NonKey(s[i])

\* C13: with one non-key record ready, the call passes over it and suspends
\* (Pending, the task waiting, nothing handed to the consumer); the task is
\* polled again only once the device is ready again, and with a valid key
\* record ready that call yields exactly one item, the decoded event.
C13_SuspendThenYield ==
    [][PollStep =>
        /\ (Len(devq) = 1 /\ NonKey(devq[1])) =>
              /\ ret'.tag = "Pending"
              /\ ~runnable'
              /\ out' = out
              /\ lastFetched' = devq
        /\ ret.tag = "Pending" => devq # <<>>
        /\ (ret.tag = "Pending" /\ Len(lastFetched) = 1 /\ NonKey(lastFetched[1])
              /\ devq # <<>> /\ ValidKey(devq[1])) =>
              /\ StepYields("Ok", EventOf(devq[1]))
              /\ lastFetched' = <<devq[1]>>
    ]_vars

C13_Witness ==
    /\ Len(fetched) = 2
    /\ NonKey(fetched[1])
    /\ ValidKey(fetched[2])
    /\ lastFetched = <<fetched[2]>>
    /\ YieldedOk
    /\ out = <<ItemOk(EventOf(fetched[2]))>>
    /\ devq = <<>>

\* C14: a call of poll_next returns Pending exactly when the records
\* available to it are all non-key records (none included); it then has
\* consumed just those and left the device empty, so it never returns
\* Pending with a key record available or consumed.
C14_PendingIffNothingAvailable ==
    [][PollStep =>
        /\ (ret'.tag = "Pending") <=> AllNonKey(devq)
        /\ ret'.tag = "Pending" =>
              /\ devq' = <<>>
              /\ lastFetched' = devq
              /\ out' = out
    ]_vars

C14_Witness ==
    /\ ret.tag = "Pending"
    /\ Len(lastFetched) = 2
    /\ AllNonKey(lastFetched)
    /\ devq = <<>>
    /\ ~runnable

\* C15: a key record whose timestamp lies before the UNIX epoch is a fault
\* and yields no event; the timestamp of every event yielded is the
\* record's time minus the epoch, which is not negative.
C15_TimestampSinceEpoch ==
    /\ (EndedOnKey /\ Last(lastFetched).timestamp < UNIX_EPOCH) =>
          /\ ret.tag = "Panic"
          /\ Len(OkEvents(out)) = Len(KeysOf(fetched)) - 1
    /\ YieldedOk =>
          /\ EndedOnKey
          /\ ret.item.val.timestamp = Last(lastFetched).timestamp - UNIX_EPOCH
          /\ ret.item.val.timestamp >= 0

C15_Witness ==
    /\ EndedOnKey
    /\ Last(lastFetched).timestamp = -1
    /\ ValidCode(Last(lastFetched)) /\ ValidValue(Last(lastFetched))
    /\ ret.tag = "Panic"
    /\ out = <<>>

\* The first outcome of s that is not a non-key record (0 if none).
FirstAnswered(s) ==
    IF \E i \in 1..Len(s) : ~NonKey(s[i])
    THEN CHOOSE i \in 1..Len(s) : ~NonKey(s[i]) /\ \A j \in 1..(i - 1) : NonKey(s[j])
    ELSE 0

\* C16: the stream keeps no state between calls: whatever the previous call
\* returned (Pending, an event or an error), a call fetches from the device
\* up to the first key record or error and answers for that one; after an
\* error item a later valid key record is still yielded as its event.
C16_NoStateBetweenCalls ==
    [][PollStep =>
        LET p == FirstAnswered(devq) IN
        /\ lastFetched' = (IF p = 0 THEN devq ELSE SubSeq(devq, 1, p))
        /\ fetched' = fetched \o lastFetched'
        /\ (p # 0 /\ ~IsRec(devq[p])) => StepYields("Err", devq[p].err)
        /\ (p # 0 /\ ValidKey(devq[p])) => StepYields("Ok", EventOf(devq[p]))
    ]_vars

C16_Witness ==
    /\ Len(out) = 2
    /\ out[1].res = "Err"
    /\ out[2].res = "Ok"
    /\ YieldedOk
    /\ Len(fetched) = 2

\* The outcomes the device has produced so far, fetched or not.
Delivered == fetched \o devq

\* C17: under an executor that polls the task whenever it is scheduled,
\* the n-th key record the device delivers is eventually yielded as the
\* n-th Ok event, provided the key records up to it are valid; and a call
\* consumes non-key records and at most one further outcome, its last.
C17_KeyEventuallyYielded ==
    /\ [](\A i \in 1..(Len(lastFetched) - 1) : NonKey(lastFetched[i]))
    /\ \A n \in 1..MaxRecords :
          (Len(KeysOf(Delivered)) >= n)
              ~> (\/ /\ Len(OkEvents(out)) >= n
                     /\ OkEvents(out)[n].val = EventOf(KeysOf(Delivered)[n])
                  \/ \E i \in 1..n :
                        /\ i <= Len(KeysOf(Delivered))
                        /\ ~ValidKey(KeysOf(Delivered)[i]))

C17_Witness ==
    /\ Len(fetched) = 3
    /\ ValidKey(fetched[1])
    /\ NonKey(fetched[2])
    /\ ValidKey(fetched[3])
    /\ Len(lastFetched) = 2
    /\ Len(OkEvents(out)) = 2

\* C18: the type filter comes before any validation: poll_next faults only
\* on a record of type 1 whose code, value or timestamp is out of its
\* domain, and a non-key record with such a code, value or timestamp is
\* discarded without fault or error.
C18_FilterBeforeValidation ==
    /\ (ret.tag = "Panic" \/ panicked) =>
          /\ EndedOnKey
          /\ ~ValidKey(Last(lastFetched))
    /\ (lastFetched # <<>> /\ NonKey(Last(lastFetched))) =>
          /\ ret.tag = "Pending"
          /\ ~panicked
          /\ out = <<>>

C18_Witness ==
    /\ lastFetched # <<>>
    /\ NonKey(Last(lastFetched))
    /\ Last(lastFetched).code = 107
    /\ Last(lastFetched).value = -1
    /\ Last(lastFetched).timestamp = -1
    /\ ret.tag = "Pending"
    /\ ~panicked

====
